---------------------------- MODULE Spec2Model ----------------------------
(***************************************************************************)
(* Validated primitives (Email, Uuid, Password<T>), the pluggable password *)
(* hasher, and the type-state UserBuilder of sonemas/service.              *)
(*                                                                         *)
(* Strings are sequences of one-character strings, so that the validators  *)
(* are computed character by character as the regular expressions and the  *)
(* UUID parser compute them.  Two non-ASCII characters of the password     *)
(* symbol class are written as the tokens "U+00C2" and "U+00BF".           *)
(***************************************************************************)
EXTENDS Naturals, Sequences, FiniteSets, TLC

(***************************************************************************)
(* Bounds of the model.                                                    *)
(***************************************************************************)
\* Draws from the operating system's random generator (salts, v4 uuids).
MaxRng == 4
\* Readings of the system clock (one per User::builder()).
MaxClock == 2
\* Hash strings kept from Password::new and T::hash called on their own.
MaxStored == 2
\* Pieces a caller's password text is made of.
MaxPasswordChunks == 4
\* Pieces a caller's email text is made of.
MaxEmailChunks == 4

(***************************************************************************)
(* Option values: None is a type-state marker such as NoEmail, Some(v) a   *)
(* holder such as HasEmail(v).                                             *)
(***************************************************************************)
None == << >>

Some(v) == <<v>>

(***************************************************************************)
(* Character classes of the regular expressions.                           *)
(***************************************************************************)
LowerChars ==
    {"a","b","c","d","e","f","g","h","i","j","k","l","m",
     "n","o","p","q","r","s","t","u","v","w","x","y","z"}

UpperChars ==
    {"A","B","C","D","E","F","G","H","I","J","K","L","M",
     "N","O","P","Q","R","S","T","U","V","W","X","Y","Z"}

DigitChars == {"0","1","2","3","4","5","6","7","8","9"}

\* [#$%/()=..?*+-] of the password pattern, with the two bytes pasted into it.
SymbolChars == {"#","$","%","/","(",")","=","U+00C2","U+00BF","?","*","+","-"}

\* [\w\d]: letters (U+00C2 is one), digits and the underscore.
WordChars == LowerChars \cup UpperChars \cup DigitChars \cup {"_", "U+00C2"}

\* "." of a pattern: any character but a line feed.
IsDot(c) == c # "\n"

\* Whether word w occurs in s at position i.
OccursAt(w, s, i) ==
    /\ i + Len(w) - 1 <= Len(s)
    /\ \A k \in 1..Len(w) : s[i + k - 1] = w[k]

Contains(s, w) == \E i \in 1..Len(s) : OccursAt(w, s, i)

(***************************************************************************)
(* Password::validate_value: the pattern                                   *)
(*   ^(?=.*\d)(?=.*[a-z])(?=.*[A-Z])(?=.*[#$%/()=..?*+-])                  *)
(*    (?=(?:([\w\d])\1?(?!\1\1)))(?!(?=.*(palabra1|palabra2|palabraN)))    *)
(*    .{8,20}$                                                             *)
(***************************************************************************)
PasswordMinLen == 8

PasswordMaxLen == 20

ForbiddenWords ==
    { <<"p","a","l","a","b","r","a","1">>,
      <<"p","a","l","a","b","r","a","2">>,
      <<"p","a","l","a","b","r","a","N">> }

\* (?=.*[class]): a character of the class after any run of non-line-feeds.
LookaheadClass(value, class) ==
    \E i \in 1..Len(value) :
        /\ value[i] \in class
        /\ \A k \in 1..(i - 1) : IsDot(value[k])

\* (?=(?:([\w\d])\1?(?!\1\1))): the group captures the first character; the
\* optional back-reference is tried taken, then skipped.
LookaheadRepeat(value) ==
    /\ Len(value) >= 1
    /\ value[1] \in WordChars
    /\ LET c == value[1]
           n == Len(value)
           taken == /\ n >= 2
                    /\ value[2] = c
                    /\ ~(n >= 4 /\ value[3] = c /\ value[4] = c)
           skipped == ~(n >= 3 /\ value[2] = c /\ value[3] = c)
       IN  taken \/ skipped

\* (?!(?=.*(palabra1|palabra2|palabraN)))
LookaheadForbidden(value) ==
    ~ \E w \in ForbiddenWords : Contains(value, w)

PasswordIsMatch(value) ==
    /\ LookaheadClass(value, DigitChars)
    /\ LookaheadClass(value, LowerChars)
    /\ LookaheadClass(value, UpperChars)
    /\ LookaheadClass(value, SymbolChars)
    /\ LookaheadRepeat(value)
    /\ LookaheadForbidden(value)
    /\ Len(value) >= PasswordMinLen
    /\ Len(value) <= PasswordMaxLen
    /\ \A i \in 1..Len(value) : IsDot(value[i])

(***************************************************************************)
(* Email::validate: the pattern, anchored at the start only,               *)
(*   ^([a-z0-9_+]([a-z0-9_+.]*[a-z0-9_+])?)@                               *)
(*    ([a-z0-9]+([\-\.]{1}[a-z0-9]+)*\.[a-z]{2,6})                         *)
(***************************************************************************)
EmailTldMin == 2

EmailTldMax == 6

LocalChars == LowerChars \cup DigitChars \cup {"_", "+"}

DomainChars == LowerChars \cup DigitChars

\* [a-z0-9_+]([a-z0-9_+.]*[a-z0-9_+])?
LocalPartMatches(l) ==
    /\ Len(l) >= 1
    /\ l[1] \in LocalChars
    /\ l[Len(l)] \in LocalChars
    /\ \A i \in 1..Len(l) : l[i] \in LocalChars \cup {"."}

\* [a-z0-9]+([\-\.]{1}[a-z0-9]+)*
LabelsMatch(y) ==
    /\ Len(y) >= 1
    /\ y[1] \in DomainChars
    /\ y[Len(y)] \in DomainChars
    /\ \A i \in 1..Len(y) : y[i] \in DomainChars \cup {"-", "."}
    /\ \A i \in 1..(Len(y) - 1) : y[i] \in DomainChars \/ y[i + 1] \in DomainChars

\* [a-z0-9]+([\-\.]{1}[a-z0-9]+)*\.[a-z]{2,6}
DomainMatches(x) ==
    \E k \in EmailTldMin..EmailTldMax :
        /\ Len(x) >= k + 2
        /\ \A i \in (Len(x) - k + 1)..Len(x) : x[i] \in LowerChars
        /\ x[Len(x) - k] = "."
        /\ LabelsMatch(SubSeq(x, 1, Len(x) - k - 1))

\* is_match: the pattern has no anchor at the end, so a prefix may match.
EmailIsMatch(s) ==
    \E a \in 1..Len(s) :
        /\ s[a] = "@"
        /\ LocalPartMatches(SubSeq(s, 1, a - 1))
        /\ \E j \in (a + 1)..Len(s) : DomainMatches(SubSeq(s, a + 1, j))

(***************************************************************************)
(* uuid::Uuid::parse_str and to_string, as used by primitives::Uuid.       *)
(***************************************************************************)
HexLower == DigitChars \cup {"a","b","c","d","e","f"}

HexChars == HexLower \cup {"A","B","C","D","E","F"}

ToLowerHex(c) ==
    CASE c = "A" -> "a" [] c = "B" -> "b" [] c = "C" -> "c"
      [] c = "D" -> "d" [] c = "E" -> "e" [] c = "F" -> "f"
      [] OTHER -> c

UuidSimpleLen == 32

UuidHyphenatedLen == 36

HyphenPositions == {9, 14, 19, 24}

UrnPrefix == <<"u","r","n",":","u","u","i","d",":">>

IsSimple(s) ==
    /\ Len(s) = UuidSimpleLen
    /\ \A i \in 1..Len(s) : s[i] \in HexChars

IsHyphenated(s) ==
    /\ Len(s) = UuidHyphenatedLen
    /\ \A i \in 1..Len(s) :
          IF i \in HyphenPositions THEN s[i] = "-" ELSE s[i] \in HexChars

\* The hyphenated text inside the form s is written in, or None.
UuidBody(s) ==
    IF IsHyphenated(s) THEN Some(s)
    ELSE IF /\ Len(s) = UuidHyphenatedLen + 2
            /\ s[1] = "{"
            /\ s[Len(s)] = "}"
            /\ IsHyphenated(SubSeq(s, 2, Len(s) - 1))
         THEN Some(SubSeq(s, 2, Len(s) - 1))
    ELSE IF /\ Len(s) = UuidHyphenatedLen + Len(UrnPrefix)
            /\ SubSeq(s, 1, Len(UrnPrefix)) = UrnPrefix
            /\ IsHyphenated(SubSeq(s, Len(UrnPrefix) + 1, Len(s)))
         THEN Some(SubSeq(s, Len(UrnPrefix) + 1, Len(s)))
    ELSE None

\* Position in the 32 digits of the i-th character of the hyphenated form.
DigitIndex(i) == i - Cardinality({h \in HyphenPositions : h < i})

\* CoreUuid::parse_str: Some(the 32 hexadecimal digits, lower case) or None.
CoreUuid_parse_str(s) ==
    IF IsSimple(s) THEN Some([i \in 1..UuidSimpleLen |-> ToLowerHex(s[i])])
    ELSE IF UuidBody(s) # None
         THEN LET b == UuidBody(s)[1]
                  pos == [d \in 1..UuidSimpleLen |->
                             CHOOSE i \in 1..UuidHyphenatedLen :
                                 i \notin HyphenPositions /\ DigitIndex(i) = d]
              IN  Some([d \in 1..UuidSimpleLen |-> ToLowerHex(b[pos[d]])])
    ELSE None

\* CoreUuid::to_string: the lower-case hyphenated form of the 32 digits.
CoreUuid_to_string(digits) ==
    [i \in 1..UuidHyphenatedLen |->
        IF i \in HyphenPositions THEN "-" ELSE digits[DigitIndex(i)]]

\* CoreUuid::new_v4: 122 random bits around the version and variant digits.
\* The n-th draw of the random generator yields the n-th such value.
HexOf(n) ==
    <<"0","1","2","3","4","5","6","7","8","9","a","b","c","d","e","f">>[(n % 16) + 1]

CoreUuid_new_v4(n) ==
    [d \in 1..UuidSimpleLen |->
        IF d = 13 THEN "4"
        ELSE IF d = 17 THEN "8"
        ELSE IF d = UuidSimpleLen THEN HexOf(n)
        ELSE IF d = UuidSimpleLen - 1 THEN HexOf(n \div 16)
        ELSE "0"]

(***************************************************************************)
(* Results and the three error enums.                                      *)
(***************************************************************************)
Ok(v) == [kind |-> "Ok", val |-> v]

IsOk(r) == r.kind = "Ok"

\* argon2::password_hash::Error
ArgonError(kind) == [ty |-> "ArgonError", kind |-> kind, detail |-> kind]

\* traits::password_hasher::Error
HashingError(msg) == [ty |-> "password_hasher::Error", kind |-> "HashingError", detail |-> msg]

HasherInvalidPassword ==
    [ty |-> "password_hasher::Error", kind |-> "InvalidPassword", detail |-> ""]

\* primitives::error::Error and ValidationError
StdValidation(field) == [ty |-> "primitives::Error", kind |-> "Validation", detail |-> field]

StdInvalidPassword == [ty |-> "primitives::Error", kind |-> "InvalidPassword", detail |-> ""]

StdPasswordHashingError(e) ==
    [ty |-> "primitives::Error", kind |-> "PasswordHashingError", detail |-> e.detail]

StdRegexError(msg) == [ty |-> "primitives::Error", kind |-> "RegexError", detail |-> msg]

\* domain::user::Error
UserValidation(field) == [ty |-> "user::Error", kind |-> "Validation", detail |-> field]

UserAuthentication == [ty |-> "user::Error", kind |-> "Authentication", detail |-> ""]

UserOther(msg) == [ty |-> "user::Error", kind |-> "Other", detail |-> msg]

\* A conversion without the arm for ArgonError::Password.
HasherError_from_ArgonError_one_arm(value) == HashingError(value.detail)

\* impl From<ArgonError> for password_hasher::Error
HasherError_from_ArgonError(value) ==
    IF value.kind = "Password" THEN HasherInvalidPassword
    ELSE HashingError(value.detail)

\* A conversion that reports every hasher error as InvalidPassword.
StdError_from_HasherError_all_invalid(value) == StdInvalidPassword

\* impl From<password_hasher::Error> for primitives::Error
StdError_from_HasherError(value) ==
    IF value.kind = "InvalidPassword" THEN StdInvalidPassword
    ELSE StdPasswordHashingError(value)

\* impl From<ValidationError> for primitives::Error
StdError_from_ValidationError(field) == StdValidation(field)

\* A conversion with a catch-all arm in place of the Validation arm.
UserError_from_StdError_catch_all(value) ==
    IF value.kind = "InvalidPassword" THEN UserAuthentication
    ELSE UserOther("error: " \o value.detail)

\* impl From<StdError> for domain::user::Error
UserError_from_StdError(value) ==
    CASE value.kind = "InvalidPassword" -> UserAuthentication
      [] value.kind = "Validation" -> UserValidation(value.detail)
      [] value.kind = "PasswordHashingError" ->
            UserOther("password hashing error: hashing failed: " \o value.detail)
      [] value.kind = "RegexError" -> UserOther("regex error: " \o value.detail)

(***************************************************************************)
(* The hashing capability.  A stored hash is a PHC string, modelled as its *)
(* "$"-separated fields: <<"$", identifier, parameters, salt, digest>>;    *)
(* the salt and the digest are optional in the PHC grammar.  The digest is *)
(* an injective function of algorithm, password and salt (an ideal hash).  *)
(***************************************************************************)
Argon2Ident == "argon2id"

Argon2Params == "v=19,m=19456,t=2,p=1"

Argon2Idents == {"argon2d", "argon2i", "argon2id"}

PhcIdents == Argon2Idents \cup {"pbkdf2-sha256", "stub"}

Digest(ident, password, salt) == <<ident, "digest", password, salt>>

\* PasswordHash::to_string
PasswordHash_to_string(ph) ==
    <<"$", ph.ident, ph.params>> \o ph.salt \o ph.digest

\* PasswordHash::new: the parsed fields, or a parse error (never Password).
PasswordHash_new(hash) ==
    IF /\ Len(hash) \in 3..5
       /\ hash[1] = "$"
       /\ hash[2] \in PhcIdents
    THEN Ok([ident |-> hash[2],
             params |-> hash[3],
             salt |-> IF Len(hash) >= 4 THEN Some(hash[4]) ELSE None,
             digest |-> IF Len(hash) >= 5 THEN Some(hash[5]) ELSE None])
    ELSE ArgonError("PhcStringField")

\* Argon2::hash_password with the default parameters.
Argon2_hash_password(input, salt) ==
    Ok([ident |-> Argon2Ident,
        params |-> Argon2Params,
        salt |-> Some(salt),
        digest |-> Some(Digest(Argon2Ident, input, salt))])

\* Argon2::verify_password: with a salt and a digest in the parsed hash, the
\* digest is computed again with the hash's own algorithm and salt and
\* compared; an algorithm Argon2 does not implement is an error.
Argon2_verify_password(password, ph) ==
    IF ph.salt # None /\ ph.digest # None
    THEN IF ph.ident \notin Argon2Idents THEN ArgonError("Algorithm")
         ELSE IF ph.digest[1] = Digest(ph.ident, password, ph.salt[1]) THEN Ok(<< >>)
         ELSE ArgonError("Password")
    ELSE ArgonError("Password")

\* A hasher that salts every hash alike.
SaltString_fixed(rng) == 0

\* SaltString::generate(&mut OsRng): the n-th draw is the n-th salt.
SaltString_generate(rng) == rng

\* Argon2PasswordHasher::hash; the salt is drawn from rng (one draw).
Argon2PasswordHasher_hash(input, rng) ==
    LET salt == SaltString_generate(rng)
        r == Argon2_hash_password(input, salt)
    IN  IF IsOk(r) THEN Ok(PasswordHash_to_string(r.val))
        ELSE HasherError_from_ArgonError(r)

\* Argon2PasswordHasher::confirm_password
Argon2PasswordHasher_confirm_password(password, hash) ==
    LET parsed_hash == PasswordHash_new(hash)
    IN  IF ~IsOk(parsed_hash) THEN HasherError_from_ArgonError(parsed_hash)
        ELSE LET v == Argon2_verify_password(password, parsed_hash.val)
             IN  IF IsOk(v) THEN Ok(<< >>) ELSE HasherError_from_ArgonError(v)

(***************************************************************************)
(* Any other capability T of the PasswordHasher trait, by the trait's      *)
(* documented contract: hash returns the hash or HashingError;             *)
(* confirm_password returns InvalidPassword when the password does not     *)
(* match and HashingError on a hasher error.  `fails` is the technical     *)
(* failure of one call.                                                    *)
(***************************************************************************)
StubIdent == "stub"

StubPasswordHasher_hash(input, rng, fails) ==
    IF fails THEN HashingError("stub hasher failed")
    ELSE Ok(<<"$", StubIdent, "", SaltString_generate(rng),
              Digest(StubIdent, input, SaltString_generate(rng))>>)

StubPasswordHasher_confirm_password(password, hash, fails) ==
    IF fails THEN HashingError("stub hasher failed")
    ELSE IF ~(Len(hash) = 5 /\ hash[1] = "$" /\ hash[2] = StubIdent)
         THEN HashingError("not a stub hash")
    ELSE IF hash[5] = Digest(StubIdent, password, hash[4]) THEN Ok(<< >>)
    ELSE HasherInvalidPassword

Hashers == {"Argon2PasswordHasher", "StubPasswordHasher"}

\* T::hash
PasswordHasher_hash(T, input, rng, fails) ==
    IF T = "Argon2PasswordHasher" THEN Argon2PasswordHasher_hash(input, rng)
    ELSE StubPasswordHasher_hash(input, rng, fails)

\* T::confirm_password
PasswordHasher_confirm_password(T, password, hash, fails) ==
    IF T = "Argon2PasswordHasher"
    THEN Argon2PasswordHasher_confirm_password(password, hash)
    ELSE StubPasswordHasher_confirm_password(password, hash, fails)

(***************************************************************************)
(* The primitives.                                                         *)
(***************************************************************************)
\* Password::validate_value
Password_validate_value(value) ==
    IF ~PasswordIsMatch(value)
    THEN StdError_from_ValidationError("Password")
    ELSE Ok(<< >>)

\* One invocation of T::hash.
HashCall(by, T, input, out) == [by |-> by, T |-> T, input |-> input, out |-> out]

\* Password::new hashing before it validates.
Password_new_hash_first(T, value, rng, fails) ==
    LET password_hash == PasswordHasher_hash(T, value, rng, fails)
        call == HashCall("Password::new", T, value,
                         IF IsOk(password_hash) THEN Some(password_hash.val) ELSE None)
        v == Password_validate_value(value)
    IN  IF ~IsOk(v) THEN [res |-> v, calls |-> <<call>>, rng |-> rng + 1]
        ELSE IF ~IsOk(password_hash)
             THEN [res |-> StdError_from_HasherError(password_hash),
                   calls |-> <<call>>, rng |-> rng]
        ELSE [res |-> Ok([hash |-> password_hash.val, T |-> T]),
              calls |-> <<call>>, rng |-> rng + 1]

\* Password::new keeping the plaintext in place of the hash.
Password_new_keeps_plaintext(T, value, rng, fails) ==
    LET v == Password_validate_value(value)
        password_hash == PasswordHasher_hash(T, value, rng, fails)
    IN  IF ~IsOk(v) THEN [res |-> v, calls |-> << >>, rng |-> rng]
        ELSE [res |-> Ok([hash |-> value, T |-> T]),
              calls |-> <<HashCall("Password::new", T, value,
                                   IF IsOk(password_hash)
                                   THEN Some(password_hash.val) ELSE None)>>,
              rng |-> rng + 1]

\* Password::new.  The value returned is Password(String, PhantomData<T>);
\* `calls` are the invocations of T::hash it made and `rng` the generator
\* after them (a hash that fails has drawn no salt).
Password_new(T, value, rng, fails) ==
    LET v == Password_validate_value(value)
    IN  IF ~IsOk(v) THEN [res |-> v, calls |-> << >>, rng |-> rng]
        ELSE LET password_hash == PasswordHasher_hash(T, value, rng, fails)
             IN  IF ~IsOk(password_hash)
                 THEN [res |-> StdError_from_HasherError(password_hash),
                       calls |-> <<HashCall("Password::new", T, value, None)>>,
                       rng |-> rng]
                 ELSE [res |-> Ok([hash |-> password_hash.val, T |-> T]),
                       calls |-> <<HashCall("Password::new", T, value,
                                            Some(password_hash.val))>>,
                       rng |-> rng + 1]

\* Password::confirm accepting every candidate.
Password_confirm_accepts_all(self, password, fails) == Ok(<< >>)

\* Password::confirm validating the candidate as a new password first.
Password_confirm_validating(self, password, fails) ==
    LET v == Password_validate_value(password)
        r == PasswordHasher_confirm_password(self.T, password, self.hash, fails)
    IN  IF ~IsOk(v) THEN v
        ELSE IF IsOk(r) THEN Ok(<< >>) ELSE StdError_from_HasherError(r)

\* Password::confirm
Password_confirm(self, password, fails) ==
    LET r == PasswordHasher_confirm_password(self.T, password, self.hash, fails)
    IN  IF IsOk(r) THEN Ok(<< >>) ELSE StdError_from_HasherError(r)

\* impl ToString for Password: self.0.clone()
Password_to_string(self) == self.hash

\* #[derive(Debug)] on Password(String, PhantomData<T>)
Password_fmt_debug(self) ==
    << <<"Password(">>, self.hash, <<"PhantomData<">>, <<self.T>>, <<">)">> >>

\* #[derive(Eq, PartialEq)] on Password(String, PhantomData<T>)
Password_eq(self, other) == self.hash = other.hash

\* Email::validate naming another field class.
Email_validate_wrong_class(self) ==
    IF ~EmailIsMatch(self.addr)
    THEN StdError_from_ValidationError("Password")
    ELSE Ok(<< >>)

\* Email::validate
Email_validate(self) ==
    IF ~EmailIsMatch(self.addr)
    THEN StdError_from_ValidationError("Email")
    ELSE Ok(<< >>)

\* Email::new without the call of validate.
Email_new_unvalidated(value) == Ok([addr |-> value])

\* Email::new
Email_new(value) ==
    LET v == [addr |-> value]
        r == Email_validate(v)
    IN  IF ~IsOk(r) THEN r ELSE Ok(v)

\* impl From<RegexError> for Error
StdError_from_RegexError(value) == StdRegexError(value)

\* What the regex engine does in one call of validate: it works, or
\* Regex::new returns Err, or is_match returns Err.
RegexOutcomes == {"ok", "compile-error", "match-error"}

\* Regex::new(pattern): Ok or Err(RegexError)
Regex_new(engine) ==
    IF engine = "compile-error" THEN [kind |-> "Err", detail |-> "regex parse error"]
    ELSE Ok(<< >>)

\* email_regex.is_match(&self.0): Ok(bool) or Err
Regex_is_match_email(text, engine) ==
    IF engine = "match-error" THEN [kind |-> "Err", detail |-> "regex runtime error"]
    ELSE Ok(EmailIsMatch(text))

\* Result<bool, _>::unwrap_or(false)
Unwrap_or_false(r) == IF IsOk(r) THEN r.val ELSE FALSE

\* Email::validate passing an error of is_match on with `?`.
Email_validate_with_match_error_passed_on(self, engine) ==
    LET email_regex == Regex_new(engine)
        m == Regex_is_match_email(self.addr, engine)
    IN  IF ~IsOk(email_regex) THEN StdError_from_RegexError(email_regex.detail)
        ELSE IF ~IsOk(m) THEN StdError_from_RegexError(m.detail)
        ELSE IF ~m.val THEN StdError_from_ValidationError("Email")
        ELSE Ok(<< >>)

\* Email::validate, with the outcome of the regex engine in this call:
\* Regex::new(..)?, then is_match(..).unwrap_or(false).
Email_validate_with(self, engine) ==
    LET email_regex == Regex_new(engine)
    IN  IF ~IsOk(email_regex) THEN StdError_from_RegexError(email_regex.detail)
        ELSE IF ~Unwrap_or_false(Regex_is_match_email(self.addr, engine))
             THEN StdError_from_ValidationError("Email")
        ELSE Ok(<< >>)

\* Email::new storing the text in lower case.
Email_new_with_case_folded(value, engine) ==
    LET v == [addr |-> [i \in 1..Len(value) |->
                          IF value[i] = "X" THEN "x" ELSE value[i]]]
        r == Email_validate_with([addr |-> value], engine)
    IN  IF ~IsOk(r) THEN r ELSE Ok(v)

\* Email::new, with the outcome of the regex engine in this call
Email_new_with(value, engine) ==
    LET v == [addr |-> value]
        r == Email_validate_with(v, engine)
    IN  IF ~IsOk(r) THEN r ELSE Ok(v)

\* impl Display for Email: write!(f, "{}", self.0)
Email_fmt(self) == self.addr

\* try_from keeping the text as it was given.
Uuid_try_from_as_given(value) ==
    LET parsed == CoreUuid_parse_str(value)
    IN  IF parsed = None THEN StdError_from_ValidationError("Id")
        ELSE Ok([uuid |-> value])

\* impl TryFrom<&str> for Uuid
Uuid_try_from(value) ==
    LET parsed == CoreUuid_parse_str(value)
    IN  IF parsed = None THEN StdError_from_ValidationError("Id")
        ELSE Ok([uuid |-> CoreUuid_to_string(parsed[1])])

\* impl Validatable for Uuid
Uuid_validate(self) ==
    IF CoreUuid_parse_str(self.uuid) = None
    THEN StdError_from_ValidationError("Id")
    ELSE Ok(<< >>)

\* impl Default for Uuid, and Uuid::new
Uuid_default(rng) == [uuid |-> CoreUuid_to_string(CoreUuid_new_v4(rng))]

\* impl Display for Uuid: write!(f, "{}", self.0)
Uuid_fmt(self) == self.uuid

(***************************************************************************)
(* Inputs of the calls.                                                    *)
(***************************************************************************)
\* "mmholAhsbC123*" and "Xy7+abcd" match the password pattern; "aQ3*",
\* "blabla" and "mmholAhsbC123" do not.
PasswordInputs ==
    { <<"m","m","h","o","l","A","h","s","b","C","1","2","3","*">>,
      <<"X","y","7","+","a","b","c","d">>,
      <<"a","Q","3","*">>,
      <<"b","l","a","b","l","a">>,
      <<"m","m","h","o","l","A","h","s","b","C","1","2","3">> }

\* "john.doe@example.com" and "a@b.io" match the email pattern; "blabla" and
\* "a@.com" do not.
EmailInputs ==
    { <<"j","o","h","n",".","d","o","e","@","e","x","a","m","p","l","e",".","c","o","m">>,
      <<"a","@","b",".","i","o">>,
      <<"b","l","a","b","l","a">>,
      <<"a","@",".","c","o","m">> }

\* "ebf8a4f3-b481-474c-ae29-c71e975e1055" and the same uuid in the simple
\* upper-case form parse; "blabla" and "123" do not.
IdInputs ==
    { <<"e","b","f","8","a","4","f","3","-","b","4","8","1","-","4","7","4","c","-",
        "a","e","2","9","-","c","7","1","e","9","7","5","e","1","0","5","5">>,
      <<"E","B","F","8","A","4","F","3","B","4","8","1","4","7","4","C",
        "A","E","2","9","C","7","1","E","9","7","5","E","1","0","5","5">>,
      <<"b","l","a","b","l","a">>,
      <<"1","2","3">> }

\* Instants passed to created() and modified(); the clock reads 0, 1, ...
TimeInputs == {100, 200}

(***************************************************************************)
(* State.                                                                  *)
(*   builder  None, or Some of the UserBuilder a chain holds: its five     *)
(*            stages, each None (NoEmail, ...) or Some(value) (HasEmail),  *)
(*            with the crate and hasher its type is instantiated with      *)
(*   user     None, or Some(User) returned by build()                      *)
(*   result   the last call: its name, the hasher T of the type it was     *)
(*            called on, its argument, the hash string it was given, the   *)
(*            value it returned, and the invocations of T::hash it made    *)
(*   rng      draws made from OsRng / the uuid generator                   *)
(*   clock    readings made of SystemTime::now()                           *)
(*   stored   the hash strings returned by Password::new and T::hash called *)
(*            alone, each with the plaintext and the call it came from      *)
(*   chain    None, or Some of what one caller supplies to one builder: the *)
(*            builder User::builder() returned, the argument given to each  *)
(*            setter so far, the salt the password setter drew, and the     *)
(*            order of the calls                                            *)
(*   sites    for each of two call sites that share no builder: the builder *)
(*            its chain holds, the User or the error the chain ended with,  *)
(*            the calls made so far and the instant its builder was made    *)
(***************************************************************************)
VARIABLES builder, user, result, rng, clock, stored, chain, sites

vars == <<builder, user, result, rng, clock, stored, chain, sites>>

Crates == {"domain", "svc_std"}

Stages == {"id", "email", "password", "created", "modified"}

Call(op, T, arg, on, res, calls) ==
    [op |-> op, T |-> T, arg |-> arg, on |-> on, res |-> res, calls |-> calls]

\* The `?` of a builder method: domain::user converts the primitives' error
\* into its own; svc_std's builder returns primitives::Error as it is.
BuilderError(crate, e) ==
    IF crate = "domain" THEN UserError_from_StdError(e) ELSE e

\* A technical failure of one call exists only for a hasher that can fail.
MayFail(T, fails) == fails => T = "StubPasswordHasher"

\* Two call sites, each running a builder chain of its own.
Sites == {1, 2}

\* A call site that has not called User::builder() yet.
IdleSite ==
    [builder |-> None, user |-> None, error |-> None, calls |-> << >>, began |-> None]

Init ==
    /\ builder = None
    /\ user = None
    /\ result = Call("none", "", << >>, None, Ok(<< >>), << >>)
    /\ rng = 0
    /\ clock = 0
    /\ stored = {}
    /\ chain = None
    /\ sites = [i \in Sites |-> IdleSite]

\* User::builder() starting from NoId.
User_builder_without_id(crate, T) ==
    /\ rng < MaxRng
    /\ clock < MaxClock
    /\ crate = "domain" => T = "Argon2PasswordHasher"
    /\ LET now == clock
       IN  builder' = Some([crate |-> crate, T |-> T,
                            id |-> None,
                            email |-> None,
                            password |-> None,
                            created |-> Some(now),
                            modified |-> Some(now)])
    /\ rng' = rng + 1
    /\ clock' = clock + 1
    /\ user' = None
    /\ result' = Call("builder", T, << >>, None, Ok(<< >>), << >>)
    /\ UNCHANGED stored
    /\ UNCHANGED <<chain, sites>>

\* User::builder(): HasId(Uuid::default()), NoEmail, NoPassword, and one
\* reading of the clock in both HasCreated and HasModified.  The model
\* follows one chain at a time: the call starts the next chain, and the
\* values of the previous one leave scope.
User_builder(crate, T) ==
    /\ rng < MaxRng
    /\ clock < MaxClock
    /\ crate = "domain" => T = "Argon2PasswordHasher"
    /\ LET now == clock
       IN  builder' = Some([crate |-> crate, T |-> T,
                            id |-> Some(Uuid_default(rng)),
                            email |-> None,
                            password |-> None,
                            created |-> Some(now),
                            modified |-> Some(now)])
    /\ rng' = rng + 1
    /\ clock' = clock + 1
    /\ user' = None
    /\ result' = Call("builder", T, << >>, None, Ok(<< >>), << >>)
    /\ UNCHANGED stored
    /\ UNCHANGED <<chain, sites>>

\* domain UserBuilder::id_from_str
UserBuilder_id_from_str(id) ==
    /\ builder # None
    /\ builder[1].crate = "domain"
    /\ LET self == builder[1]
           r == Uuid_try_from(id)
       IN  IF IsOk(r)
           THEN /\ builder' = Some([self EXCEPT !.id = Some(r.val)])
                /\ result' = Call("id_from_str", self.T, id, None, Ok(<< >>), << >>)
           ELSE /\ builder' = None
                /\ result' = Call("id_from_str", self.T, id, None,
                                  BuilderError(self.crate, r), << >>)
    /\ UNCHANGED <<user, rng, clock, stored>>
    /\ UNCHANGED <<chain, sites>>

\* domain UserBuilder::id: a random uuid
UserBuilder_id ==
    /\ builder # None
    /\ builder[1].crate = "domain"
    /\ rng < MaxRng
    /\ builder' = Some([builder[1] EXCEPT !.id = Some(Uuid_default(rng))])
    /\ rng' = rng + 1
    /\ result' = Call("id", builder[1].T, << >>, None, Ok(<< >>), << >>)
    /\ UNCHANGED <<user, clock, stored>>
    /\ UNCHANGED <<chain, sites>>

\* svc_std UserBuilder::id(id: T::Id), with T::Id = Uuid: the argument is a
\* Uuid value, which only try_from and default construct.
UserBuilder_id_value(id) ==
    /\ builder # None
    /\ builder[1].crate = "svc_std"
    /\ IsOk(Uuid_try_from(id))
    /\ builder' = Some([builder[1] EXCEPT !.id = Some(Uuid_try_from(id).val)])
    /\ result' = Call("id", builder[1].T, id, None, Ok(<< >>), << >>)
    /\ UNCHANGED <<user, rng, clock, stored>>
    /\ UNCHANGED <<chain, sites>>

\* UserBuilder::email moving NoPassword into the builder it returns.
UserBuilder_email_dropping_password(email) ==
    /\ builder # None
    /\ LET self == builder[1]
           r == Email_new(email)
       IN  IF IsOk(r)
           THEN /\ builder' = Some([self EXCEPT !.email = Some(r.val),
                                                !.password = None])
                /\ result' = Call("email", self.T, email, None, Ok(<< >>), << >>)
           ELSE /\ builder' = None
                /\ result' = Call("email", self.T, email, None,
                                  BuilderError(self.crate, r), << >>)
    /\ UNCHANGED <<user, rng, clock, stored>>
    /\ UNCHANGED <<chain, sites>>

\* UserBuilder::email
UserBuilder_email(email) ==
    /\ builder # None
    /\ LET self == builder[1]
           r == Email_new(email)
       IN  IF IsOk(r)
           THEN /\ builder' = Some([self EXCEPT !.email = Some(r.val)])
                /\ result' = Call("email", self.T, email, None, Ok(<< >>), << >>)
           ELSE /\ builder' = None
                /\ result' = Call("email", self.T, email, None,
                                  BuilderError(self.crate, r), << >>)
    /\ UNCHANGED <<user, rng, clock, stored>>
    /\ UNCHANGED <<chain, sites>>

\* UserBuilder::password
UserBuilder_password(password, fails) ==
    /\ builder # None
    /\ rng < MaxRng
    /\ MayFail(builder[1].T, fails)
    /\ LET self == builder[1]
           r == Password_new(self.T, password, rng, fails)
       IN  /\ IF IsOk(r.res)
              THEN /\ builder' = Some([self EXCEPT !.password = Some(r.res.val)])
                   /\ result' = Call("password", self.T, password, None, Ok(<< >>), r.calls)
              ELSE /\ builder' = None
                   /\ result' = Call("password", self.T, password, None,
                                     BuilderError(self.crate, r.res), r.calls)
           /\ rng' = r.rng
    /\ UNCHANGED <<user, clock, stored>>
    /\ UNCHANGED <<chain, sites>>

\* UserBuilder::created moving the new instant into modified as well.
UserBuilder_created_also_modified(created) ==
    /\ builder # None
    /\ builder' = Some([builder[1] EXCEPT !.created = Some(created),
                                          !.modified = Some(created)])
    /\ result' = Call("created", builder[1].T, created, None, Ok(<< >>), << >>)
    /\ UNCHANGED <<user, rng, clock, stored>>
    /\ UNCHANGED <<chain, sites>>

\* UserBuilder::created
UserBuilder_created(created) ==
    /\ builder # None
    /\ builder' = Some([builder[1] EXCEPT !.created = Some(created)])
    /\ result' = Call("created", builder[1].T, created, None, Ok(<< >>), << >>)
    /\ UNCHANGED <<user, rng, clock, stored>>
    /\ UNCHANGED <<chain, sites>>

\* UserBuilder::modified
UserBuilder_modified(modified) ==
    /\ builder # None
    /\ builder' = Some([builder[1] EXCEPT !.modified = Some(modified)])
    /\ result' = Call("modified", builder[1].T, modified, None, Ok(<< >>), << >>)
    /\ UNCHANGED <<user, rng, clock, stored>>
    /\ UNCHANGED <<chain, sites>>

\* build() exists only in
\* impl UserBuilder<HasId, HasEmail, HasPassword, HasCreated, HasModified>.
BuildLooseOnEmail(self) ==
    /\ self.id # None
    /\ self.password # None
    /\ self.created # None
    /\ self.modified # None

build_permitted(self) ==
    /\ self.id # None
    /\ self.email # None
    /\ self.password # None
    /\ self.created # None
    /\ self.modified # None

\* build() taking the modification time from the creation time.
BuildOf_modified_from_created(self) ==
    [crate |-> self.crate,
     id |-> self.id[1],
     email |-> self.email[1],
     password |-> self.password[1],
     created |-> self.created[1],
     modified |-> self.created[1]]

\* The User that build() makes of the five stages: User { id: id.0, ... }.
BuildOf(self) ==
    [crate |-> self.crate,
     id |-> self.id[1],
     email |-> self.email[1],
     password |-> self.password[1],
     created |-> self.created[1],
     modified |-> self.modified[1]]

\* UserBuilder::build
UserBuilder_build ==
    /\ builder # None
    /\ build_permitted(builder[1])
    /\ user' = Some(BuildOf(builder[1]))
    /\ builder' = None
    /\ result' = Call("build", builder[1].T, << >>, None, Ok(<< >>), << >>)
    /\ UNCHANGED <<rng, clock, stored>>
    /\ UNCHANGED <<chain, sites>>

\* impl Authenticatable for User: confirm_password
User_confirm_password(password, fails) ==
    /\ user # None
    /\ MayFail(user[1].password.T, fails)
    /\ LET self == user[1]
           r == Password_confirm(self.password, password, fails)
       IN  result' = Call("confirm_password", self.password.T, password,
                          Some(self.password.hash),
                          IF IsOk(r) THEN r ELSE BuilderError(self.crate, r),
                          << >>)
    /\ UNCHANGED <<builder, user, rng, clock, stored>>
    /\ UNCHANGED <<chain, sites>>

Next ==
    \/ \E crate \in Crates, T \in Hashers : User_builder(crate, T)
    \/ \E id \in IdInputs : UserBuilder_id_from_str(id)
    \/ UserBuilder_id
    \/ \E id \in IdInputs : UserBuilder_id_value(id)
    \/ \E email \in EmailInputs : UserBuilder_email(email)
    \/ \E password \in PasswordInputs, fails \in BOOLEAN :
          UserBuilder_password(password, fails)
    \/ \E t \in TimeInputs : UserBuilder_created(t)
    \/ \E t \in TimeInputs : UserBuilder_modified(t)
    \/ UserBuilder_build
    \/ \E password \in PasswordInputs, fails \in BOOLEAN :
          User_confirm_password(password, fails)

Spec == Init /\ [][Next]_vars

(***************************************************************************)
(* The primitives and the hasher called on their own.                      *)
(***************************************************************************)
Origin(by, pw, plain, call) == [by |-> by, pw |-> pw, plain |-> plain, call |-> call]

\* Password::<T>::new(password)
Call_Password_new(T, password, fails) ==
    /\ rng < MaxRng
    /\ Cardinality(stored) < MaxStored
    /\ MayFail(T, fails)
    /\ LET r == Password_new(T, password, rng, fails)
       IN  /\ stored' = IF IsOk(r.res)
                        THEN stored \cup {Origin("Password::new", r.res.val, password, rng)}
                        ELSE stored
           /\ rng' = r.rng
           /\ result' = Call("Password::new", T, password, None, r.res, r.calls)
    /\ UNCHANGED <<builder, user, clock>>
    /\ UNCHANGED <<chain, sites>>

\* password.confirm(candidate) on a Password that Password::new returned
Call_Password_confirm(s, candidate, fails) ==
    /\ s \in stored
    /\ s.by = "Password::new"
    /\ MayFail(s.pw.T, fails)
    /\ result' = Call("Password::confirm", s.pw.T, candidate, Some(s.pw.hash),
                      Password_confirm(s.pw, candidate, fails), << >>)
    /\ UNCHANGED <<builder, user, rng, clock, stored>>
    /\ UNCHANGED <<chain, sites>>

\* password.to_string()
Call_Password_to_string(s) ==
    /\ s \in stored
    /\ s.by = "Password::new"
    /\ result' = Call("Password::to_string", s.pw.T, << >>, Some(s.pw.hash),
                      Ok(Password_to_string(s.pw)), << >>)
    /\ UNCHANGED <<builder, user, rng, clock, stored, chain, sites>>

\* format!("{:?}", password)
Call_Password_fmt_debug(s) ==
    /\ s \in stored
    /\ s.by = "Password::new"
    /\ result' = Call("Password::fmt", s.pw.T, << >>, Some(s.pw.hash),
                      Ok(Password_fmt_debug(s.pw)), << >>)
    /\ UNCHANGED <<builder, user, rng, clock, stored, chain, sites>>

\* password == other, both of one hasher type
Call_Password_eq(s, other) ==
    /\ s \in stored
    /\ other \in stored
    /\ s.by = "Password::new"
    /\ other.by = "Password::new"
    /\ s.pw.T = other.pw.T
    /\ result' = Call("Password::eq", s.pw.T, other.pw.hash, Some(s.pw.hash),
                      Ok(Password_eq(s.pw, other.pw)), << >>)
    /\ UNCHANGED <<builder, user, rng, clock, stored, chain, sites>>

\* Argon2PasswordHasher::hash(input)
Call_hash(input) ==
    /\ rng < MaxRng
    /\ Cardinality(stored) < MaxStored
    /\ LET T == "Argon2PasswordHasher"
           r == Argon2PasswordHasher_hash(input, rng)
       IN  /\ stored' = IF IsOk(r)
                        THEN stored \cup {Origin("T::hash", [hash |-> r.val, T |-> T], input, rng)}
                        ELSE stored
           /\ result' = Call("T::hash", T, input, None, r,
                             <<HashCall("T::hash", T, input,
                                        IF IsOk(r) THEN Some(r.val) ELSE None)>>)
    /\ rng' = rng + 1
    /\ UNCHANGED <<builder, user, clock>>
    /\ UNCHANGED <<chain, sites>>

\* What a persisted hash string may have become when it is read back.
Damages == {"intact", "truncated", "foreign", "foreign-truncated", "unprefixed", "empty"}

Damaged(hash, how) ==
    CASE how = "intact" -> hash
      [] how = "truncated" -> SubSeq(hash, 1, 4)
      [] how = "foreign" -> [hash EXCEPT ![2] = "pbkdf2-sha256"]
      [] how = "foreign-truncated" -> SubSeq([hash EXCEPT ![2] = "pbkdf2-sha256"], 1, 4)
      [] how = "unprefixed" -> Tail(hash)
      [] how = "empty" -> << >>

\* Argon2PasswordHasher::confirm_password(password, hash), hash any string
Call_confirm_password(password, s, how) ==
    /\ s \in stored
    /\ LET hash == Damaged(s.pw.hash, how)
       IN  result' = Call("T::confirm_password", "Argon2PasswordHasher", password,
                          Some(hash),
                          Argon2PasswordHasher_confirm_password(password, hash),
                          << >>)
    /\ UNCHANGED <<builder, user, rng, clock, stored>>
    /\ UNCHANGED <<chain, sites>>

PrimNext ==
    \/ \E T \in Hashers, password \in PasswordInputs, fails \in BOOLEAN :
          Call_Password_new(T, password, fails)
    \/ \E s \in stored, candidate \in PasswordInputs, fails \in BOOLEAN :
          Call_Password_confirm(s, candidate, fails)
    \/ \E s \in stored : Call_Password_to_string(s)
    \/ \E s \in stored : Call_Password_fmt_debug(s)
    \/ \E s \in stored, other \in stored : Call_Password_eq(s, other)
    \/ \E input \in PasswordInputs : Call_hash(input)
    \/ \E password \in PasswordInputs, s \in stored, how \in Damages :
          Call_confirm_password(password, s, how)

PrimSpec == Init /\ [][PrimNext]_vars

(***************************************************************************)
(* One builder chain in which the caller supplies each of the five values  *)
(* once, in any order.  The setters are written as functions of the        *)
(* builder they consume: each returns its Result and, on success, the      *)
(* builder it moved the other four stages into.                            *)
(***************************************************************************)
Built(res, b) == [res |-> res, builder |-> b]

\* UserBuilder::id_from_str (domain); UserBuilder::id(id) (svc_std) of the
\* Uuid value that try_from made of the string.
Set_id(self, id) ==
    LET r == Uuid_try_from(id)
    IN  IF IsOk(r)
        THEN Built(Ok(<< >>), Some([self EXCEPT !.id = Some(r.val)]))
        ELSE Built(BuilderError(self.crate, r), None)

\* UserBuilder::email
Set_email(self, email) ==
    LET r == Email_new(email)
    IN  IF IsOk(r)
        THEN Built(Ok(<< >>), Some([self EXCEPT !.email = Some(r.val)]))
        ELSE Built(BuilderError(self.crate, r), None)

\* UserBuilder::password, the hasher drawing `salt`
Set_password(self, password, salt) ==
    LET r == Password_new(self.T, password, salt, FALSE)
    IN  IF IsOk(r.res)
        THEN Built(Ok(<< >>), Some([self EXCEPT !.password = Some(r.res.val)]))
        ELSE Built(BuilderError(self.crate, r.res), None)

\* UserBuilder::created writing the instant into modified as well.
Set_created_also_modified(self, created) ==
    Built(Ok(<< >>), Some([self EXCEPT !.created = Some(created),
                                       !.modified = Some(created)]))

\* UserBuilder::created
Set_created(self, created) ==
    Built(Ok(<< >>), Some([self EXCEPT !.created = Some(created)]))

\* UserBuilder::modified
Set_modified(self, modified) ==
    Built(Ok(<< >>), Some([self EXCEPT !.modified = Some(modified)]))

\* The chain after a setter of `stage` was called with `arg` and returned r:
\* a successful call is recorded, a failed one has consumed the builder.
Supplied(stage, arg, r) ==
    IF IsOk(r.res)
    THEN Some([chain[1] EXCEPT !.supplied[stage] = Some(arg),
                               !.order = Append(@, stage)])
    ELSE chain

\* User::builder() reading the clock once for created and again for modified.
Chain_builder_two_clock_readings(crate, T) ==
    /\ chain = None
    /\ result.op = "none"
    /\ rng < MaxRng
    /\ clock < MaxClock
    /\ crate = "domain" => T = "Argon2PasswordHasher"
    /\ LET b == [crate |-> crate, T |-> T,
                 id |-> Some(Uuid_default(rng)),
                 email |-> None,
                 password |-> None,
                 created |-> Some(clock),
                 modified |-> Some(clock + 1)]
       IN  /\ builder' = Some(b)
           /\ chain' = Some([start |-> b,
                             supplied |-> [st \in Stages |-> None],
                             salt |-> None,
                             order |-> << >>])
    /\ rng' = rng + 1
    /\ clock' = clock + 1
    /\ result' = Call("builder", T, << >>, None, Ok(<< >>), << >>)
    /\ UNCHANGED <<user, stored, sites>>

\* User::builder() at the start of the chain
Chain_builder(crate, T) ==
    /\ chain = None
    /\ result.op = "none"
    /\ rng < MaxRng
    /\ clock < MaxClock
    /\ crate = "domain" => T = "Argon2PasswordHasher"
    /\ LET now == clock
           b == [crate |-> crate, T |-> T,
                 id |-> Some(Uuid_default(rng)),
                 email |-> None,
                 password |-> None,
                 created |-> Some(now),
                 modified |-> Some(now)]
       IN  /\ builder' = Some(b)
           /\ chain' = Some([start |-> b,
                             supplied |-> [st \in Stages |-> None],
                             salt |-> None,
                             order |-> << >>])
    /\ rng' = rng + 1
    /\ clock' = clock + 1
    /\ result' = Call("builder", T, << >>, None, Ok(<< >>), << >>)
    /\ UNCHANGED <<user, stored, sites>>

Chain_id(id) ==
    /\ builder # None
    /\ chain[1].supplied.id = None
    /\ builder[1].crate = "svc_std" => IsOk(Uuid_try_from(id))
    /\ LET r == Set_id(builder[1], id)
       IN  /\ builder' = r.builder
           /\ chain' = Supplied("id", id, r)
           /\ result' = Call(IF builder[1].crate = "domain" THEN "id_from_str" ELSE "id",
                             builder[1].T, id, None, r.res, << >>)
    /\ UNCHANGED <<user, rng, clock, stored, sites>>

Chain_email(email) ==
    /\ builder # None
    /\ chain[1].supplied.email = None
    /\ LET r == Set_email(builder[1], email)
       IN  /\ builder' = r.builder
           /\ chain' = Supplied("email", email, r)
           /\ result' = Call("email", builder[1].T, email, None, r.res, << >>)
    /\ UNCHANGED <<user, rng, clock, stored, sites>>

Chain_password(password) ==
    /\ builder # None
    /\ chain[1].supplied.password = None
    /\ rng < MaxRng
    /\ LET r == Set_password(builder[1], password, rng)
           c == Supplied("password", password, r)
       IN  /\ builder' = r.builder
           /\ chain' = IF IsOk(r.res) THEN Some([c[1] EXCEPT !.salt = Some(rng)]) ELSE c
           /\ rng' = IF IsOk(r.res) THEN rng + 1 ELSE rng
           /\ result' = Call("password", builder[1].T, password, None, r.res,
                             Password_new(builder[1].T, password, rng, FALSE).calls)
    /\ UNCHANGED <<user, clock, stored, sites>>

Chain_created(created) ==
    /\ builder # None
    /\ chain[1].supplied.created = None
    /\ LET r == Set_created(builder[1], created)
       IN  /\ builder' = r.builder
           /\ chain' = Supplied("created", created, r)
           /\ result' = Call("created", builder[1].T, created, None, r.res, << >>)
    /\ UNCHANGED <<user, rng, clock, stored, sites>>

Chain_modified(modified) ==
    /\ builder # None
    /\ chain[1].supplied.modified = None
    /\ LET r == Set_modified(builder[1], modified)
       IN  /\ builder' = r.builder
           /\ chain' = Supplied("modified", modified, r)
           /\ result' = Call("modified", builder[1].T, modified, None, r.res, << >>)
    /\ UNCHANGED <<user, rng, clock, stored, sites>>

Chain_build ==
    /\ builder # None
    /\ build_permitted(builder[1])
    /\ user' = Some(BuildOf(builder[1]))
    /\ builder' = None
    /\ result' = Call("build", builder[1].T, << >>, None, Ok(<< >>), << >>)
    /\ UNCHANGED <<rng, clock, stored, chain, sites>>

\* Time passing between the calls of the chain: the system clock, which only
\* User::builder() reads, moves on.
Chain_elapse ==
    /\ chain # None
    /\ clock < MaxClock
    /\ clock' = clock + 1
    /\ UNCHANGED <<builder, user, result, rng, stored, chain, sites>>

OrderNext ==
    \/ \E crate \in Crates, T \in Hashers : Chain_builder(crate, T)
    \/ \E id \in IdInputs : Chain_id(id)
    \/ \E email \in EmailInputs : Chain_email(email)
    \/ \E password \in PasswordInputs : Chain_password(password)
    \/ \E t \in TimeInputs : Chain_created(t)
    \/ \E t \in TimeInputs : Chain_modified(t)
    \/ Chain_elapse
    \/ Chain_build

OrderSpec == Init /\ [][OrderNext]_vars

\* The same five values supplied in the canonical order to the builder the
\* chain started from, and built.
CanonicalBuild(c) ==
    LET b1 == Set_id(c.start, c.supplied.id[1]).builder[1]
        b2 == Set_email(b1, c.supplied.email[1]).builder[1]
        b3 == Set_password(b2, c.supplied.password[1], c.salt[1]).builder[1]
        b4 == Set_created(b3, c.supplied.created[1]).builder[1]
        b5 == Set_modified(b4, c.supplied.modified[1]).builder[1]
    IN  BuildOf(b5)

(***************************************************************************)
(* Two builder chains of the domain crate run from independent call sites. *)
(* Each site owns its builder (a builder is moved from call to call and    *)
(* never shared); the sites share the operating system's random generator  *)
(* and clock.  The steps of the two chains interleave in every way; each   *)
(* site calls each of its setters at most once.                            *)
(***************************************************************************)
\* What the two sites pass to their setters.  Site 1 supplies an id and a
\* creation instant; site 2 leaves both to the builder.
SiteIdInputs(i) ==
    IF i = 1 THEN {id \in IdInputs : Len(id) = UuidHyphenatedLen} ELSE {}

SiteEmailInputs(i) ==
    IF i = 1
    THEN { <<"a","@","b",".","i","o">>, <<"b","l","a","b","l","a">> }
    ELSE { <<"c","@","d",".","f","r">>, <<"a","@",".","c","o","m">> }

SitePasswordInputs(i) ==
    IF i = 1
    THEN { <<"X","y","7","+","a","b","c","d">> }
    ELSE { <<"a","Q","3","*","a","Q","3","*">> }

SiteTimeInputs(i) == IF i = 1 THEN {100} ELSE {}

\* The setters a site has called.
Called(site) == {site.calls[k].op : k \in 1..Len(site.calls)}

\* The site after its setter `op`, called with `arg`, returned r: the builder
\* was moved into the call, and comes back only from a successful one.
AfterSetter(site, op, arg, r) ==
    [site EXCEPT !.builder = r.builder,
                 !.error = IF IsOk(r.res) THEN None ELSE Some(r.res),
                 !.calls = Append(@, [op |-> op, arg |-> arg])]

\* The site after build()
AfterBuild(site) ==
    [site EXCEPT !.builder = None,
                 !.user = Some(BuildOf(site.builder[1])),
                 !.calls = Append(@, [op |-> "build", arg |-> << >>])]

\* The builder User::builder() returns with the given draw and instant.
NewBuilder(draw, now) ==
    [crate |-> "domain", T |-> "Argon2PasswordHasher",
     id |-> Some(Uuid_default(draw)),
     email |-> None,
     password |-> None,
     created |-> Some(now),
     modified |-> Some(now)]

\* User::builder() at site i
Site_builder(i) ==
    /\ sites[i] = IdleSite
    /\ rng < MaxRng
    /\ clock < MaxClock
    /\ LET now == clock
       IN  sites' = [sites EXCEPT ![i] = [IdleSite EXCEPT
                                            !.builder = Some(NewBuilder(rng, now)),
                                            !.began = Some(now)]]
    /\ rng' = rng + 1
    /\ clock' = clock + 1
    /\ UNCHANGED <<builder, user, result, stored, chain>>

\* UserBuilder::id_from_str at site i
Site_id_from_str(i, id) ==
    /\ sites[i].builder # None
    /\ "id" \notin Called(sites[i])
    /\ sites' = [sites EXCEPT ![i] =
                    AfterSetter(@, "id", id, Set_id(sites[i].builder[1], id))]
    /\ UNCHANGED <<builder, user, result, rng, clock, stored, chain>>

\* UserBuilder::email at site i, with one builder behind both sites.
Site_email_shared_builder(i, email) ==
    /\ sites[i].builder # None
    /\ "email" \notin Called(sites[i])
    /\ LET r == Set_email(sites[i].builder[1], email)
       IN  sites' = [j \in Sites |->
                       IF j = i THEN AfterSetter(sites[i], "email", email, r)
                       ELSE IF sites[j].builder # None /\ IsOk(r.res)
                            THEN [sites[j] EXCEPT !.builder =
                                    Some([@[1] EXCEPT !.email = r.builder[1].email])]
                            ELSE sites[j]]
    /\ UNCHANGED <<builder, user, result, rng, clock, stored, chain>>

\* UserBuilder::email at site i
Site_email(i, email) ==
    /\ sites[i].builder # None
    /\ "email" \notin Called(sites[i])
    /\ sites' = [sites EXCEPT ![i] =
                    AfterSetter(@, "email", email, Set_email(sites[i].builder[1], email))]
    /\ UNCHANGED <<builder, user, result, rng, clock, stored, chain>>

\* UserBuilder::password at site i: the salt is the next draw of the
\* generator that both sites draw from.
Site_password(i, password) ==
    /\ sites[i].builder # None
    /\ "password" \notin Called(sites[i])
    /\ rng < MaxRng
    /\ LET r == Set_password(sites[i].builder[1], password, rng)
       IN  /\ sites' = [sites EXCEPT ![i] = AfterSetter(@, "password", password, r)]
           /\ rng' = IF IsOk(r.res) THEN rng + 1 ELSE rng
    /\ UNCHANGED <<builder, user, result, clock, stored, chain>>

\* UserBuilder::created at site i
Site_created(i, created) ==
    /\ sites[i].builder # None
    /\ "created" \notin Called(sites[i])
    /\ sites' = [sites EXCEPT ![i] =
                    AfterSetter(@, "created", created,
                                Set_created(sites[i].builder[1], created))]
    /\ UNCHANGED <<builder, user, result, rng, clock, stored, chain>>

\* UserBuilder::build at site i
Site_build(i) ==
    /\ sites[i].builder # None
    /\ build_permitted(sites[i].builder[1])
    /\ sites' = [sites EXCEPT ![i] = AfterBuild(@)]
    /\ UNCHANGED <<builder, user, result, rng, clock, stored, chain>>

ConcNext ==
    \E i \in Sites :
        \/ Site_builder(i)
        \/ \E id \in SiteIdInputs(i) : Site_id_from_str(i, id)
        \/ \E email \in SiteEmailInputs(i) : Site_email(i, email)
        \/ \E password \in SitePasswordInputs(i) : Site_password(i, password)
        \/ \E t \in SiteTimeInputs(i) : Site_created(i, t)
        \/ Site_build(i)

ConcSpec == Init /\ [][ConcNext]_vars

\* The same calls made by a site that runs alone: its builder is the first to
\* read clock and generator, and every salt is the site's own next draw.
AloneStart ==
    [builder |-> Some(NewBuilder(0, 0)), user |-> None, error |-> None,
     calls |-> << >>, began |-> Some(0), rng |-> 1]

AloneStep(site, c) ==
    IF c.op = "build" THEN AfterBuild(site)
    ELSE LET self == site.builder[1]
             r == CASE c.op = "id" -> Set_id(self, c.arg)
                    [] c.op = "email" -> Set_email(self, c.arg)
                    [] c.op = "password" -> Set_password(self, c.arg, site.rng)
                    [] c.op = "created" -> Set_created(self, c.arg)
         IN  [AfterSetter(site, c.op, c.arg, r) EXCEPT
                !.rng = IF c.op = "password" /\ IsOk(r.res) THEN @ + 1 ELSE @]

RECURSIVE RunAlone(_)
RunAlone(calls) ==
    IF calls = << >> THEN AloneStart
    ELSE AloneStep(RunAlone(SubSeq(calls, 1, Len(calls) - 1)), calls[Len(calls)])

(***************************************************************************)
(* The constructors applied to texts of every shape.  A text is made of up *)
(* to a bounded number of pieces, chosen so that every rule of a pattern   *)
(* is met and missed at the start, inside and at the end of a text.        *)
(***************************************************************************)
RECURSIVE Texts(_, _)
Texts(chunks, n) ==
    IF n = 0 THEN {<< >>}
    ELSE LET shorter == Texts(chunks, n - 1)
         IN  shorter \cup {t \o c : t \in shorter, c \in chunks}

\* "aQ3*" has the four classes; "bbb" and "b" make runs; "*" is a symbol;
\* "palabra1" is forbidden; "mmholAhsbC12" makes long texts.
PasswordChunks ==
    { <<"a","Q","3","*">>,
      <<"b","b","b">>,
      <<"b">>,
      <<"*">>,
      <<"p","a","l","a","b","r","a","1">>,
      <<"m","m","h","o","l","A","h","s","b","C","1","2">> }

PasswordTexts == Texts(PasswordChunks, MaxPasswordChunks)

EmailChunks ==
    { <<"a">>, <<".">>, <<"a",".",".","a">>, <<"@">>, <<"b",".","i","o">>,
      <<"!">>, <<"X">> }

EmailTexts == Texts(EmailChunks, MaxEmailChunks)

\* The forms a uuid is written in, and texts that are none of them.
ToUpperHex(c) ==
    CASE c = "a" -> "A" [] c = "b" -> "B" [] c = "c" -> "C"
      [] c = "d" -> "D" [] c = "e" -> "E" [] c = "f" -> "F"
      [] OTHER -> c

UpperCase(s) == [i \in 1..Len(s) |-> ToUpperHex(s[i])]

SimpleForm(h) == SelectSeq(h, LAMBDA c : c # "-")

UuidForms(h) ==
    { h, UpperCase(h), SimpleForm(h), UpperCase(SimpleForm(h)),
      <<"{">> \o h \o <<"}">>, UrnPrefix \o h, UrnPrefix \o UpperCase(h),
      Tail(h), h \o <<"0">>, [h EXCEPT ![1] = "g"], [h EXCEPT ![9] = "0"],
      <<"{">> \o h, Tail(SimpleForm(h)), UpperCase(UrnPrefix) \o h }

IdTexts ==
    IdInputs \cup {<< >>}
    \cup UNION {UuidForms(CoreUuid_to_string(CoreUuid_new_v4(n))) : n \in {0, 10, 171}}
    \cup UuidForms(<<"e","b","f","8","a","4","f","3","-","b","4","8","1","-","4","7","4","c","-",
                     "a","e","2","9","-","c","7","1","e","9","7","5","e","1","0","5","5">>)

\* The text a caller holds before it calls a constructor with it.
Input(kind, text) == Call("input", kind, text, None, Ok(<< >>), << >>)

\* The errors below primitives::Error: the three ValidationError variants,
\* what the regex engine reports, what a hasher reports, and errors of the
\* argon2 library among them the Password variant.
ValidationErrors ==
    {[ty |-> "ValidationError", kind |-> f, detail |-> f] : f \in {"Id", "Email", "Password"}}

RegexErrors ==
    {[ty |-> "RegexError", kind |-> "Err", detail |-> m] :
        m \in {"regex parse error", "regex runtime error"}}

ArgonErrors ==
    {ArgonError(k) : k \in {"Algorithm", "Crypto", "Password", "PhcStringField", "SaltInvalid"}}

HasherErrors ==
    {HasherInvalidPassword, HashingError("stub hasher failed"), HashingError("not a stub hash")}
        \cup {HasherError_from_ArgonError(e) : e \in ArgonErrors}

\* The conversion that `?` applies to an error inside the primitives.
StdError_from(e) ==
    CASE e.ty = "ValidationError" -> StdError_from_ValidationError(e.kind)
      [] e.ty = "RegexError" -> StdError_from_RegexError(e.detail)
      [] e.ty = "password_hasher::Error" -> StdError_from_HasherError(e)

TextInit ==
    /\ builder = None
    /\ user = None
    /\ rng = 0
    /\ clock = 0
    /\ stored = {}
    /\ chain = None
    /\ sites = [i \in Sites |-> IdleSite]
    /\ result \in {Input("Password", t) : t \in PasswordTexts}
                  \cup {Input("Email", t) : t \in EmailTexts}
                  \cup {Input("Uuid", t) : t \in IdTexts}
                  \cup {Input("Error", e) :
                            e \in ValidationErrors \cup RegexErrors \cup HasherErrors}

\* Password::<T>::new(text)
Text_Password_new(T, fails) ==
    /\ result.op = "input"
    /\ result.T = "Password"
    /\ rng < MaxRng
    /\ MayFail(T, fails)
    /\ LET r == Password_new(T, result.arg, rng, fails)
       IN  /\ result' = Call("Password::new", T, result.arg, None, r.res, r.calls)
           /\ rng' = r.rng
    /\ UNCHANGED <<builder, user, clock, stored, chain, sites>>

\* A call that goes through the regex engine, with the engine's outcome.
EngineCall(op, crate, engine, arg, res) ==
    [op |-> op, T |-> "", arg |-> arg, on |-> None, res |-> res, calls |-> << >>,
     crate |-> crate, engine |-> engine]

\* Email::new(text), and User::builder().email(text) of the domain crate
Text_Email_new(crate, engine) ==
    /\ result.op = "input"
    /\ result.T = "Email"
    /\ LET r == Email_new_with(result.arg, engine)
       IN  result' = EngineCall(IF crate = "domain" THEN "email" ELSE "Email::new",
                                crate, engine, result.arg,
                                IF IsOk(r) THEN r ELSE BuilderError(crate, r))
    /\ UNCHANGED <<builder, user, rng, clock, stored, chain, sites>>

\* Uuid::try_from(text)
Text_Uuid_try_from ==
    /\ result.op = "input"
    /\ result.T = "Uuid"
    /\ result' = Call("Uuid::try_from", "", result.arg, None,
                      Uuid_try_from(result.arg), << >>)
    /\ UNCHANGED <<builder, user, rng, clock, stored, chain, sites>>

\* Uuid::new()
Text_Uuid_new ==
    /\ result.op = "input"
    /\ result.T = "Uuid"
    /\ rng < MaxRng
    /\ result' = Call("Uuid::new", "", << >>, None, Ok(Uuid_default(rng)), << >>)
    /\ rng' = rng + 1
    /\ UNCHANGED <<builder, user, clock, stored, chain, sites>>

\* Uuid::try_from(id.to_string()) of a Uuid that exists
Text_Uuid_reparse ==
    /\ result.op \in {"Uuid::try_from", "Uuid::new"}
    /\ IsOk(result.res)
    /\ LET shown == Uuid_fmt(result.res.val)
       IN  result' = Call("Uuid::try_from", "shown", shown, None,
                         Uuid_try_from(shown), << >>)
    /\ UNCHANGED <<builder, user, rng, clock, stored, chain, sites>>

\* primitives::Error::from(e)
Text_StdError_from ==
    /\ result.op = "input"
    /\ result.T = "Error"
    /\ result' = Call("primitives::Error::from", "Error", result.arg, None,
                      StdError_from(result.arg), << >>)
    /\ UNCHANGED <<builder, user, rng, clock, stored, chain, sites>>

\* user::Error::from(e) of a primitives::Error
Text_UserError_from ==
    /\ result.op = "primitives::Error::from"
    /\ result' = Call("user::Error::from", "Error", result.res, None,
                      UserError_from_StdError(result.res), << >>)
    /\ UNCHANGED <<builder, user, rng, clock, stored, chain, sites>>

TextNext ==
    \/ \E T \in Hashers, fails \in BOOLEAN : Text_Password_new(T, fails)
    \/ \E crate \in Crates, engine \in RegexOutcomes : Text_Email_new(crate, engine)
    \/ Text_Uuid_try_from
    \/ Text_Uuid_new
    \/ Text_Uuid_reparse
    \/ Text_StdError_from
    \/ Text_UserError_from

TextSpec == TextInit /\ [][TextNext]_vars

(***************************************************************************)
(* Properties.                                                             *)
(***************************************************************************)
\* The stages of a builder that hold no value.
UnsetStages(self) == {st \in Stages : self[st] = None}

\* The plaintexts and salts a hash string of hasher T can come from.
IsHashOf(T, hash, plain, salt) ==
    LET r == PasswordHasher_hash(T, plain, salt, FALSE)
    IN  IsOk(r) /\ r.val = hash

\* C1: build() is permitted only on a builder whose five stages (id, email,
\* credential, created, modified) are all set; while a stage is unset, or
\* when no builder is held, build() is not available, so no Principal can
\* be produced.
C1_BuildOnlyWhenAllStagesSet ==
    /\ builder # None /\ UnsetStages(builder[1]) # {} =>
          /\ ~build_permitted(builder[1])
          /\ ~ENABLED UserBuilder_build
    /\ builder # None /\ UnsetStages(builder[1]) = {} => build_permitted(builder[1])
    /\ builder = None => ~ENABLED UserBuilder_build

\* A builder on which a setter has acted and which still has an unset stage.
C1_Witness ==
    /\ builder # None
    /\ result.op = "password"
    /\ UnsetStages(builder[1]) = {"email"}

C3_ValidationBeforeHashing ==
    result.op = "Password::new" =>
        /\ \A i \in 1..Len(result.calls) : PasswordIsMatch(result.calls[i].input)
        /\ ~PasswordIsMatch(result.arg) =>
              /\ result.res = StdValidation("Password")
              /\ result.calls = << >>
        /\ PasswordIsMatch(result.arg) =>
              /\ Len(result.calls) = 1
              /\ result.calls[1].input = result.arg

\* Password::new was called with a plaintext that fails validation.
C3_Witness ==
    /\ result.op = "Password::new"
    /\ ~PasswordIsMatch(result.arg)

\* The credentials a chain holds: in its builder and in its Principal.
HeldCredentials ==
    (IF builder # None /\ builder[1].password # None
     THEN {builder[1].password[1]} ELSE {})
    \cup (IF user # None THEN {user[1].password} ELSE {})

\* C4: the string a Credential stores is the output of the hashing
\* capability on the supplied plaintext and never the plaintext itself, and
\* the Credential holds nothing but that string.
C4_StoredStringIsTheHash ==
    /\ \A c \in HeldCredentials :
          /\ DOMAIN c = {"hash", "T"}
          /\ c.hash \notin PasswordInputs
          /\ \E plain \in PasswordInputs, salt \in 0..MaxRng :
                IsHashOf(c.T, c.hash, plain, salt)
    /\ result.op = "password" /\ IsOk(result.res) =>
          /\ builder # None
          /\ Len(result.calls) = 1
          /\ result.calls[1].input = result.arg
          /\ builder[1].password = Some([hash |-> result.calls[1].out[1],
                                         T |-> builder[1].T])
          /\ builder[1].password[1].hash # result.arg

\* The password setter has stored a credential in the builder.
C4_Witness ==
    /\ result.op = "password"
    /\ IsOk(result.res)
    /\ builder # None
    /\ builder[1].password # None

C6_FreshSaltPerHash ==
    \A a \in stored, b \in stored :
        a.call # b.call /\ a.plain = b.plain =>
            /\ a.pw.hash # b.pw.hash
            /\ IsOk(PasswordHasher_confirm_password(a.pw.T, a.plain, a.pw.hash, FALSE))
            /\ IsOk(PasswordHasher_confirm_password(b.pw.T, b.plain, b.pw.hash, FALSE))
            /\ a.by = "Password::new" => IsOk(Password_confirm(a.pw, a.plain, FALSE))

\* Two calls of the Argon2 hasher's hash, and two of Password::new, were
\* made with one plaintext.
C6_Witness ==
    \E a \in stored, b \in stored :
        /\ a.call # b.call
        /\ a.plain = b.plain
        /\ a.by = b.by
        /\ a.pw.T = "Argon2PasswordHasher"
        /\ b.pw.T = "Argon2PasswordHasher"

\* C7: confirm_password never returns a Validation error, whatever the
\* candidate, also one that does not match the password pattern: it
\* returns success, Authentication (InvalidPassword) or a technical error
\* (Other, PasswordHashingError).
C7_ConfirmNeverValidates ==
    result.op = "confirm_password" =>
        /\ result.res.kind # "Validation"
        /\ \/ IsOk(result.res)
           \/ /\ result.res.ty = "user::Error"
              /\ result.res.kind \in {"Authentication", "Other"}
           \/ /\ result.res.ty = "primitives::Error"
              /\ result.res.kind \in {"InvalidPassword", "PasswordHashingError"}

\* confirm_password was called with a candidate that does not match the
\* password pattern.
C7_Witness ==
    /\ result.op = "confirm_password"
    /\ ~PasswordIsMatch(result.arg)
    /\ Len(result.arg) < PasswordMinLen

\* A hash string the Argon2 hasher can evaluate: it parses as a PHC string
\* and, where it carries a salt and a digest, names an Argon2 algorithm.
WellFormedHash(hash) ==
    /\ Len(hash) \in 3..5
    /\ hash[1] = "$"
    /\ hash[2] \in PhcIdents
    /\ Len(hash) = 5 => hash[2] \in Argon2Idents

\* The hash string is one the Argon2 hasher's hash returned for this
\* plaintext.
HashedFrom(hash, plain) ==
    \E s \in stored :
        /\ s.pw.T = "Argon2PasswordHasher"
        /\ s.pw.hash = hash
        /\ s.plain = plain

ConstructionOps ==
    {"builder", "id_from_str", "id", "email", "password", "created", "modified",
     "build", "Password::new"}

\* C9: no construction operation returns Authentication / InvalidPassword,
\* for any hashing capability that keeps the trait's contract: a failure of
\* hash during construction is a technical error.
C9_ConstructionNeverAuthenticationError ==
    result.op \in ConstructionOps =>
        /\ result.res.kind \notin {"Authentication", "InvalidPassword"}
        /\ result.calls # << >> /\ result.calls[1].out = None =>
              result.res.kind \in {"Other", "PasswordHashingError"}

\* The password setter was called and the hasher failed.
C9_Witness ==
    /\ result.op = "password"
    /\ result.calls # << >>
    /\ result.calls[1].out = None
    /\ result.res.kind = "PasswordHashingError"

\* The Validation error of a crate's builder for a field class.
ValidationOf(res, field) ==
    /\ res.ty \in {"user::Error", "primitives::Error"}
    /\ res.kind = "Validation"
    /\ res.detail = field

\* C10: a setter given invalid input fails with the Validation error of its
\* own field class (Email, Id, Password), from any builder state; no
\* builder is returned, so the chain cannot reach build().
C10_SetterFailsWithOwnFieldClass ==
    /\ result.op = "email" /\ ~EmailIsMatch(result.arg) =>
          ValidationOf(result.res, "Email") /\ builder = None
    /\ result.op = "id_from_str" /\ CoreUuid_parse_str(result.arg) = None =>
          ValidationOf(result.res, "Id") /\ builder = None
    /\ result.op = "password" /\ ~PasswordIsMatch(result.arg) =>
          ValidationOf(result.res, "Password") /\ builder = None
    /\ result.op \in {"email", "id_from_str", "password"} /\ ~IsOk(result.res) =>
          builder = None /\ ~ENABLED UserBuilder_build

\* The email setter has failed on a builder of the domain crate.
C10_Witness ==
    /\ result.op = "email"
    /\ result.res = UserValidation("Email")
    /\ builder = None

\* C11: stage-setting is commutative: when the five values have been
\* supplied, in whatever order, the builder can be built and the Principal
\* it builds is the one that the same values supplied in the canonical order
\* (id, email, credential, created, modified) build.
C11_StageSettingCommutes ==
    chain # None /\ (\A st \in Stages : chain[1].supplied[st] # None) =>
        /\ builder # None \/ user # None
        /\ builder # None =>
              /\ build_permitted(builder[1])
              /\ BuildOf(builder[1]) = CanonicalBuild(chain[1])
        /\ user # None => user[1] = CanonicalBuild(chain[1])

\* A Principal built from values supplied in the reverse of the canonical
\* order, with different instants for created and modified.
C11_Witness ==
    /\ user # None
    /\ chain # None
    /\ chain[1].order = <<"modified", "created", "password", "email", "id">>
    /\ user[1].created # user[1].modified

\* The value a successful setter call puts into its stage: made of the
\* call's argument (of the uuid drawn, for the domain's id(); of the hash
\* the call obtained, for password).
StageOf(op) == IF op = "id_from_str" THEN "id" ELSE op

SetterOps == {"id_from_str", "id", "email", "password", "created", "modified"}

ValueSet(crate, T, call, draw) ==
    CASE call.op = "id_from_str" ->
            [uuid |-> CoreUuid_to_string(CoreUuid_parse_str(call.arg)[1])]
      [] call.op = "id" /\ crate = "domain" -> Uuid_default(draw)
      [] call.op = "id" /\ crate = "svc_std" ->
            [uuid |-> CoreUuid_to_string(CoreUuid_parse_str(call.arg)[1])]
      [] call.op = "email" -> [addr |-> call.arg]
      [] call.op = "password" -> [hash |-> call.calls[1].out[1], T |-> T]
      [] call.op \in {"created", "modified"} -> call.arg

\* C12: a stage only moves from unset to set.  In every step of a builder a
\* stage that was set stays set; a setter given valid input succeeds whether
\* or not its stage was already set, and the builder it returns holds the
\* new value in that stage; build() takes each field from the stage as the
\* last successful setter left it.
C12_StagesOnlyMoveToSet ==
    [][ /\ (builder # None /\ builder' # None /\ result'.op # "builder") =>
              \A st \in Stages : builder[1][st] # None => builder'[1][st] # None
        /\ (result'.op = "email" /\ EmailIsMatch(result'.arg)) => IsOk(result'.res)
        /\ (result'.op = "id_from_str" /\ CoreUuid_parse_str(result'.arg) # None) =>
              IsOk(result'.res)
        /\ (result'.op = "password" /\ PasswordIsMatch(result'.arg)
               /\ result'.T = "Argon2PasswordHasher") => IsOk(result'.res)
        /\ result'.op \in {"id", "created", "modified"} => IsOk(result'.res)
        /\ (result'.op \in SetterOps /\ IsOk(result'.res)) =>
              /\ builder # None
              /\ builder' # None
              /\ builder'[1][StageOf(result'.op)] =
                    Some(ValueSet(builder[1].crate, builder[1].T, result', rng))
        /\ result'.op = "build" =>
              /\ builder # None
              /\ user' # None
              /\ \A st \in Stages : user'[1][st] = builder[1][st][1]
      ]_vars

\* The created setter was called on a builder whose created stage was set
\* since User::builder(), and the builder holds the new instant.
C12_Witness ==
    /\ result.op = "created"
    /\ builder # None
    /\ builder[1].created = Some(result.arg)
    /\ builder[1].email # None
    /\ builder[1].password # None

\* Build is available on the builder held, if one is held.
Buildable(b) == b # None /\ build_permitted(b[1])

\* C13: User::builder() returns a builder with email and credential unset,
\* the id set to a uuid drawn from the generator at that call, and created
\* and modified both set to the clock's reading at that call, so build() is
\* not available on it; an email or password stage becomes set only by a
\* successful call of its setter, and build() is available exactly when both
\* are set, so it becomes available at the successful setter call that sets
\* the second of the two.
C13_InitialBuilder ==
    [][ /\ result'.op = "builder" =>
              /\ builder' # None
              /\ builder'[1].email = None
              /\ builder'[1].password = None
              /\ builder'[1].id = Some(Uuid_default(rng))
              /\ rng' = rng + 1
              /\ IsOk(Uuid_validate(builder'[1].id[1]))
              /\ builder'[1].created = Some(clock)
              /\ builder'[1].modified = Some(clock)
              /\ clock' = clock + 1
              /\ ~Buildable(builder')
        /\ builder' # None =>
              (Buildable(builder') <=>
                  builder'[1].email # None /\ builder'[1].password # None)
        /\ \A st \in {"email", "password"} :
              (builder' # None /\ builder'[1][st] # None
                 /\ (builder = None \/ builder[1][st] = None)) =>
                  /\ builder # None
                  /\ result'.op = st
                  /\ IsOk(result'.res)
        /\ (Buildable(builder') /\ ~Buildable(builder)) =>
              /\ result'.op \in {"email", "password"}
              /\ IsOk(result'.res)
      ]_vars

\* The password setter has succeeded after the email setter on a builder
\* that still holds the instants of User::builder(): build() is available.
C13_Witness ==
    /\ result.op = "password"
    /\ IsOk(result.res)
    /\ Buildable(builder)
    /\ builder[1].created = builder[1].modified
    /\ builder[1].created[1] \notin TimeInputs

\* C14: build() is pure and cannot fail: it is available whenever the five
\* stages are set, it returns a Principal whose five fields are the five
\* values the builder held, and it validates nothing, hashes nothing, draws
\* nothing from the generator and does not read the clock.
C14_BuildIsPure ==
    [][ /\ (builder # None /\ UnsetStages(builder[1]) = {}) =>
              ENABLED UserBuilder_build
        /\ result'.op = "build" =>
              /\ builder # None
              /\ IsOk(result'.res)
              /\ user' = Some([crate |-> builder[1].crate,
                               id |-> builder[1].id[1],
                               email |-> builder[1].email[1],
                               password |-> builder[1].password[1],
                               created |-> builder[1].created[1],
                               modified |-> builder[1].modified[1]])
              /\ result'.calls = << >>
              /\ rng' = rng
              /\ clock' = clock
              /\ stored' = stored
      ]_vars

\* build() has returned a Principal whose created and modified instants
\* differ.
C14_Witness ==
    /\ result.op = "build"
    /\ user # None
    /\ user[1].created # user[1].modified
    /\ chain = None

\* The password rules as the documentation states them.
HasRunOfThree(s) ==
    \E i \in 1..(Len(s) - 2) : s[i] = s[i + 1] /\ s[i + 1] = s[i + 2]

StatedPasswordRules(s) ==
    /\ Len(s) >= PasswordMinLen
    /\ Len(s) <= PasswordMaxLen
    /\ \E i \in 1..Len(s) : s[i] \in LowerChars
    /\ \E i \in 1..Len(s) : s[i] \in UpperChars
    /\ \E i \in 1..Len(s) : s[i] \in DigitChars
    /\ \E i \in 1..Len(s) : s[i] \in SymbolChars
    /\ ~HasRunOfThree(s)
    /\ ~ \E w \in ForbiddenWords : Contains(s, w)

\* C15: Password::new fails with Validation(Password) for every plaintext
\* that breaks one of the stated rules (length 8 to 20, a lowercase letter,
\* an uppercase letter, a digit, a symbol, no run of three identical
\* characters anywhere, no forbidden word), and passes validation for every
\* plaintext that keeps them all.
C15_PasswordGrammarAsStated ==
    result.op = "Password::new" =>
        /\ ~StatedPasswordRules(result.arg) => result.res = StdValidation("Password")
        /\ StatedPasswordRules(result.arg) => result.res.kind # "Validation"

\* C16: with the regex engine working, Email::new(s) succeeds exactly when
\* s matches the email pattern (anchored at the start) and fails with
\* Validation(Email) for every other s; on success the stored string is s
\* unchanged, and Display renders s.
C16_EmailNewExactlyOnMatch ==
    (result.op = "Email::new" /\ result.engine = "ok") =>
        /\ EmailIsMatch(result.arg) =>
              /\ IsOk(result.res)
              /\ result.res.val = [addr |-> result.arg]
              /\ Email_fmt(result.res.val) = result.arg
        /\ ~EmailIsMatch(result.arg) => result.res = StdValidation("Email")

\* Email::new has accepted a text that holds an upper-case letter.
C16_Witness ==
    /\ result.op = "Email::new"
    /\ result.engine = "ok"
    /\ IsOk(result.res)
    /\ \E i \in 1..Len(result.arg) : result.arg[i] \in UpperChars

\* The invariant of the data model, on the whole of a text.
StatedEmailInvariant(s) ==
    \E a \in 1..Len(s) :
        /\ s[a] = "@"
        /\ LET local == SubSeq(s, 1, a - 1)
               domain == SubSeq(s, a + 1, Len(s))
           IN  /\ Len(local) >= 1
               /\ \A i \in 1..Len(local) : local[i] \in LocalChars \cup {"."}
               /\ local[1] # "." /\ local[Len(local)] # "."
               /\ \A i \in 1..(Len(local) - 1) : ~(local[i] = "." /\ local[i + 1] = ".")
               /\ \E k \in EmailTldMin..EmailTldMax :
                     /\ Len(domain) >= k + 2
                     /\ domain[Len(domain) - k] = "."
                     /\ \A i \in (Len(domain) - k + 1)..Len(domain) :
                           domain[i] \in LowerChars

\* C17: every Email that exists satisfies the invariant of the data model
\* on its whole stored string: local part, "@", domain, the last segment of
\* the domain 2 to 6 letters, and the local part made of lowercase letters,
\* digits, "_", "+" and single interior dots.
C17_EmailInvariantOnWholeString ==
    (result.op = "Email::new" /\ IsOk(result.res)) =>
        StatedEmailInvariant(result.res.val.addr)

\* The canonical form of a uuid: 36 characters, lower-case hexadecimal
\* digits, hyphens at positions 9, 14, 19 and 24.
IsCanonicalUuid(s) ==
    /\ Len(s) = UuidHyphenatedLen
    /\ \A i \in 1..Len(s) :
          IF i \in HyphenPositions THEN s[i] = "-" ELSE s[i] \in HexLower

\* C18: Uuid::try_from fails with Validation(Id) on a text that is no uuid;
\* on a uuid in any accepted form the stored and displayed string is the
\* canonical lower-case hyphenated form, parsing the displayed string gives
\* an equal Uuid, and a text already canonical is stored unchanged; every
\* Uuid that exists, parsed or generated, validates.
C18_UuidRoundTrip ==
    /\ result.op = "Uuid::try_from" =>
          /\ CoreUuid_parse_str(result.arg) = None =>
                result.res = StdValidation("Id")
          /\ CoreUuid_parse_str(result.arg) # None => IsOk(result.res)
          /\ IsCanonicalUuid(result.arg) =>
                IsOk(result.res) /\ Uuid_fmt(result.res.val) = result.arg
          /\ (\E i \in 1..Len(result.arg) : result.arg[i] \notin HexChars \cup {"-"})
                /\ Len(result.arg) <= UuidHyphenatedLen =>
                result.res = StdValidation("Id")
    /\ (result.op \in {"Uuid::try_from", "Uuid::new"} /\ IsOk(result.res)) =>
          /\ IsCanonicalUuid(Uuid_fmt(result.res.val))
          /\ Uuid_try_from(Uuid_fmt(result.res.val)) = Ok(result.res.val)
          /\ IsOk(Uuid_validate(result.res.val))
    /\ (result.op = "Uuid::try_from" /\ result.T = "shown") =>
          /\ IsOk(result.res)
          /\ Uuid_fmt(result.res.val) = result.arg

\* A Uuid parsed from the upper-case simple form was displayed and the
\* displayed string parsed again.
C18_Witness ==
    /\ result.op = "Uuid::try_from"
    /\ result.T = "shown"
    /\ IsOk(result.res)
    /\ result.res.val.uuid[1] = "e"

\* C19: Email::new fails with Validation(Email) when the text does not
\* match and also when is_match itself fails; when the pattern cannot be
\* compiled it fails with RegexError, which the domain crate's builder
\* reports as Other, and never with a Validation error.
C19_RegexEngineFailures ==
    result.op \in {"Email::new", "email"} =>
        /\ (result.engine = "match-error") =>
              result.res = BuilderError(result.crate, StdValidation("Email"))
        /\ (result.engine = "ok" /\ ~EmailIsMatch(result.arg)) =>
              result.res = BuilderError(result.crate, StdValidation("Email"))
        /\ (result.engine = "compile-error") =>
              /\ result.res.kind # "Validation"
              /\ result.crate = "svc_std" =>
                    result.res.ty = "primitives::Error" /\ result.res.kind = "RegexError"
              /\ result.crate = "domain" =>
                    result.res.ty = "user::Error" /\ result.res.kind = "Other"

\* is_match failed on a text that matches the pattern.
C19_Witness ==
    /\ result.op = "Email::new"
    /\ result.engine = "match-error"
    /\ EmailIsMatch(result.arg)
    /\ result.res = StdValidation("Email")

\* The operations of a Password other than confirm.
ObservingOps == {"Password::to_string", "Password::fmt", "Password::eq"}

\* C20, as stated: confirm is the only operation of a Password through
\* which anything of the secret is observed; neither the string conversion
\* nor the debug rendering returns the stored hash.
C20_OnlyConfirmObservesTheSecret ==
    /\ result.op = "Password::to_string" => result.res.val # result.on[1]
    /\ result.op = "Password::fmt" =>
          \A i \in 1..Len(result.res.val) : result.res.val[i] # result.on[1]

\* C20, amended: no operation of a Password returns the plaintext, and
\* confirm is the only one that takes a candidate; but the stored hash is
\* observable: to_string returns it, the debug rendering holds it, and
\* equality compares it, so that two Passwords made of one plaintext by two
\* calls of new are not equal.
C20_HashIsObservablePlaintextIsNot ==
    /\ result.op \in ObservingOps =>
          \A s \in stored :
              (s.by = "Password::new" /\ s.pw.hash = result.on[1]) =>
                  /\ result.op = "Password::to_string" =>
                        /\ result.res.val = s.pw.hash
                        /\ result.res.val # s.plain
                  /\ result.op = "Password::fmt" =>
                        /\ result.res.val[2] = s.pw.hash
                        /\ \A i \in 1..Len(result.res.val) : result.res.val[i] # s.plain
                  /\ result.op = "Password::eq" =>
                        (result.res.val <=> result.arg = s.pw.hash)
    /\ result.op = "Password::eq" =>
          \A a \in stored, b \in stored :
              (a.pw.hash = result.on[1] /\ b.pw.hash = result.arg /\ a.call # b.call) =>
                  result.res.val = FALSE

\* to_string was called on a Password and returned its hash string.
C20_Witness ==
    /\ result.op = "Password::to_string"
    /\ result.res.val = result.on[1]
    /\ \E s \in stored : s.by = "Password::new" /\ s.pw.hash = result.res.val

\* C22: a setter changes only its own stage: after a successful call of the
\* id, email, password, created or modified setter each of the other four
\* stages is set or unset as before and holds the value it held.
C22_SetterChangesOnlyItsStage ==
    [][ (result'.op \in SetterOps /\ IsOk(result'.res)) =>
            /\ builder # None
            /\ builder' # None
            /\ \A st \in Stages \ {StageOf(result'.op)} :
                  builder'[1][st] = builder[1][st]
            /\ builder'[1].crate = builder[1].crate
            /\ builder'[1].T = builder[1].T
            /\ user' = user
      ]_vars

\* The created setter has succeeded on a builder whose email, password and
\* modified stages held values of their own setters.
C22_Witness ==
    /\ result.op = "created"
    /\ IsOk(result.res)
    /\ builder # None
    /\ builder[1].email # None
    /\ builder[1].password # None
    /\ builder[1].modified \in {Some(t) : t \in TimeInputs}
    /\ builder[1].modified # builder[1].created

\* C24: while neither the created nor the modified setter was called on the
\* chain, the builder holds, and the User built from it has, created equal to
\* modified, both the one instant read when the builder was made, whatever
\* other setters were called and however far the clock has moved on since.
C24_DefaultInstantsAreEqual ==
    (chain # None /\ chain[1].supplied.created = None
                  /\ chain[1].supplied.modified = None) =>
        /\ builder # None =>
              /\ builder[1].created = builder[1].modified
              /\ builder[1].created = chain[1].start.created
        /\ user # None =>
              /\ user[1].created = user[1].modified
              /\ Some(user[1].created) = chain[1].start.created

\* A User was built from a chain on which the id, email and password setters
\* were called, neither instant setter was, and the clock has moved on since
\* the builder was made.
C24_Witness ==
    /\ chain # None
    /\ user # None
    /\ result.op = "build"
    /\ chain[1].supplied.created = None
    /\ chain[1].supplied.modified = None
    /\ chain[1].order \in {<<"id", "email", "password">>,
                           <<"password", "email", "id">>}
    /\ clock > user[1].created + 1
    /\ user[1].created = user[1].modified

\* The kinds of primitives::Error that report a technical failure.
TechnicalKinds == {"PasswordHashingError", "RegexError"}

\* C23: the translation of a primitives::Error into a user::Error is defined
\* for every error and keeps its kind: Validation(k) becomes Validation(k)
\* with the same k of Id, Email, Password; InvalidPassword becomes
\* Authentication; PasswordHashingError and RegexError become Other; so
\* Validation and Authentication come from nothing technical and Other from
\* no Validation.
C23_TranslationKeepsKind ==
    result.op = "user::Error::from" =>
        LET e == result.arg
            u == result.res
        IN  /\ u.ty = "user::Error"
            /\ u.kind \in {"Validation", "Authentication", "Other"}
            /\ e.kind = "Validation" =>
                   /\ u = UserValidation(e.detail)
                   /\ u.detail \in {"Id", "Email", "Password"}
            /\ e.kind = "InvalidPassword" => u = UserAuthentication
            /\ e.kind \in TechnicalKinds => u.kind = "Other"
            /\ u.kind = "Validation" => e.kind = "Validation"
            /\ u.kind = "Authentication" => e.kind = "InvalidPassword"
            /\ u.kind = "Other" => e.kind \in TechnicalKinds

\* The Password ValidationError was translated into user::Error.
C23_Witness ==
    /\ result.op = "user::Error::from"
    /\ result.arg = StdValidation("Password")
    /\ result.res.kind = "Validation"

\* Each of the other kinds was translated as well.
C23_WitnessTechnical ==
    /\ result.op = "user::Error::from"
    /\ result.arg.kind = "PasswordHashingError"
    /\ result.res.kind = "Other"

\* The stages a site holds, in its builder or in the User built from it.
Held(site) ==
    IF site.builder # None THEN Some([st \in Stages |-> site.builder[1][st]])
    ELSE IF site.user # None THEN Some([st \in Stages |-> Some(site.user[1][st])])
    ELSE None

\* The ids the generator hands out.
GeneratedIds == {Uuid_default(n) : n \in 0..MaxRng}

\* The outcome of a chain as its caller can tell it: the error; or the id and
\* the instants it supplied, the email, and the plaintexts the credential
\* confirms.  An id the caller did not supply is some generated id, and an
\* instant it did not supply is told by its distance from the instant the
\* builder was made.
Outcome(site) ==
    [error |-> site.error,
     live |-> site.builder # None,
     built |-> site.user # None,
     held |->
        IF Held(site) = None THEN None
        ELSE LET f == Held(site)[1]
             IN  Some([id |-> IF "id" \in Called(site) \/ f.id[1] \notin GeneratedIds
                              THEN f.id
                              ELSE Some([uuid |-> <<"generated">>]),
                       email |-> f.email,
                       credential |-> f.password # None,
                       confirms |-> {p \in SitePasswordInputs(1) \cup SitePasswordInputs(2) :
                                       /\ f.password # None
                                       /\ IsOk(Password_confirm(f.password[1], p, FALSE))},
                       created |-> IF "created" \in Called(site) THEN f.created
                                   ELSE Some(f.created[1] - site.began[1]),
                       modified |-> Some(f.modified[1] - site.began[1])])]

\* C21: two builder chains that share no builder do not interfere: however
\* their setter and build steps interleave, each chain has the outcome that
\* the same calls give when the chain runs alone: the same error, or a User
\* with the same id, email and instants and a credential that confirms the
\* same plaintext.
C21_ChainsDoNotInterfere ==
    \A i \in Sites :
        sites[i].began # None =>
            Outcome(sites[i]) = Outcome(RunAlone(sites[i].calls))

\* Site 1 has built a User and site 2 has failed on its email, after site 2
\* made its builder and hashed its password between the calls of site 1.
C21_Witness ==
    /\ sites[1].user # None
    /\ sites[1].began = Some(0)
    /\ sites[1].user[1].password.hash[4] = 3
    /\ sites[2].began = Some(1)
    /\ sites[2].error = Some(UserValidation("Email"))
    /\ Len(sites[2].calls) = 2

=============================================================================
